---- MODULE Spec2Model ----
(***************************************************************************)
(* Lowering and serialization of an MSCCL++ program: ir_to_json and        *)
(* dump_to_json of msccl/language/mscclpp/ir.py.                            *)
(*                                                                         *)
(* The program is one mutable structure (gpus -> threadblocks -> ops);     *)
(* ir_to_json rewrites it stage by stage and hands it to dump_to_json.     *)
(* pc is the position inside ir_to_json.  Op objects are compared by       *)
(* identity in the source, so every op carries a uid (unique per gpu) and  *)
(* a dependency is the uid of the op it refers to.                         *)
(***************************************************************************)
EXTENDS Integers, Sequences, FiniteSets, TLC

VARIABLES program, input, simplified, pc, out

vars == <<program, input, simplified, pc, out>>

(***************************************************************************)
(* Bounds of the enumerated inputs.                                        *)
(***************************************************************************)
MaxIndex == 1
MaxDecl == 1
MaxDeps == 2
MaxChans == 2

(***************************************************************************)
(* Generic helpers.                                                        *)
(***************************************************************************)
max(a, b) == IF a >= b THEN a ELSE b

RECURSIVE SeqMax(_)
SeqMax(s) == IF s = <<>> THEN 0 ELSE max(Head(s), SeqMax(Tail(s)))

Range(s) == {s[i] : i \in 1..Len(s)}

RECURSIVE Flatten(_)
Flatten(ss) == IF ss = <<>> THEN <<>> ELSE Head(ss) \o Flatten(Tail(ss))

(***************************************************************************)
(* Values of the enumerations (Buffer.value, ChannelType.value, the        *)
(* instruction names).                                                     *)
(***************************************************************************)
Buffers == {"i", "o", "s"}

NoChunk == [buffer |-> "none", index |-> 0, size |-> 0, rank |-> -1]

Chunk(b, i, n, r) == [buffer |-> b, index |-> i, size |-> n, rank |-> r]

_local_src_insts_mscclpp ==
    {"put", "put_packet", "signal", "flush", "put_with_signal",
     "put_with_signal_and_flush", "copy", "copy_packet", "transform_to_packet",
     "reduce", "reduce_packet", "reduce_send", "reduce_send_packet",
     "group_load_reduce_store", "group_store"}

_local_dst_insts_mscclpp ==
    {"get", "wait", "read_reduce_copy", "copy", "copy_packet",
     "transform_to_packet", "reduce", "read_reduce_copy_send", "reduce_send",
     "reduce_packet", "reduce_send_packet", "group_load_reduce_store",
     "group_load_reduce"}

_insts_no_need_sync_barrier ==
    {"copy_packet", "reduce_packet", "reduce_send_packet", "barrier"}

RemoteDstInsts == {"read_reduce_copy_send", "reduce_send", "reduce_send_packet"}

(***************************************************************************)
(* Op(inst, rank, src, dst, depends) with the fields the lowering reads.   *)
(***************************************************************************)
Op(uid, inst, src, dst, srcs, dsts, depends, ctype) ==
    [uid |-> uid, inst |-> inst, src |-> src, dst |-> dst, srcs |-> srcs,
     dsts |-> dsts, depends |-> depends, channel_type |-> ctype,
     step |-> -1, tb |-> -1, extra |-> [tb_list |-> <<>>, barrier_id |-> 0]]

Barrier(uid, depends, tb_list, barrier_id) ==
    [Op(uid, "barrier", NoChunk, NoChunk, <<>>, <<>>, depends, "none")
        EXCEPT !.extra = [tb_list |-> tb_list, barrier_id |-> barrier_id]]

AllOps(gpu) == Flatten([t \in 1..Len(gpu.threadblocks) |-> gpu.threadblocks[t].ops])

\* the op object a dependency refers to
Deref(gpu, uid) == CHOOSE op \in Range(AllOps(gpu)) : op.uid = uid

(***************************************************************************)
(* Stage 1: buffer sizes from usage.                                       *)
(***************************************************************************)
\* the chunks of one op that the scan reads, in scan order
ScannedNoSrcs(op) ==
    (IF op.inst \in _local_src_insts_mscclpp THEN <<op.src>> ELSE <<>>)
    \o (IF op.inst \in _local_dst_insts_mscclpp
        THEN <<op.dst>> \o (IF op.inst \notin RemoteDstInsts THEN op.dsts ELSE <<>>)
        ELSE <<>>)

ScannedChunks(op) ==
    (IF op.inst \in _local_src_insts_mscclpp THEN <<op.src>> \o op.srcs ELSE <<>>)
    \o (IF op.inst \in _local_dst_insts_mscclpp
        THEN <<op.dst>> \o (IF op.inst \notin RemoteDstInsts THEN op.dsts ELSE <<>>)
        ELSE <<>>)

\* buffer_sizes[key] = max(buffer_sizes[key], index + size), folded over chunks
RECURSIVE ChunkFold(_, _, _)
ChunkFold(chunks, buf, acc) ==
    IF chunks = <<>> THEN acc
    ELSE LET c == Head(chunks)
         IN ChunkFold(Tail(chunks), buf,
                      IF c.buffer = buf THEN max(acc, c.index + c.size) ELSE acc)

\* buffer_sizes[(rank, buf)] after the scan of every gpu
buffer_sizes(prog, rank, buf) ==
    LET mine == SelectSeq(prog.gpus, LAMBDA g : g.rank = rank)
        ops == Flatten([g \in 1..Len(mine) |-> AllOps(mine[g])])
    IN ChunkFold(Flatten([k \in 1..Len(ops) |-> ScannedChunks(ops[k])]), buf, 0)

\* the declared sizes are overwritten instead of kept when larger
InferIgnoringDeclared(prog) ==
    [g \in 1..Len(prog.gpus) |->
        LET gpu == prog.gpus[g]
        IN [gpu EXCEPT
              !.input_chunks = buffer_sizes(prog, gpu.rank, "i"),
              !.output_chunks = buffer_sizes(prog, gpu.rank, "o"),
              !.scratch_chunks = buffer_sizes(prog, gpu.rank, "s")]]

InferBufferSizes(prog) ==
    [g \in 1..Len(prog.gpus) |->
        LET gpu == prog.gpus[g]
        IN [gpu EXCEPT
              !.input_chunks = max(buffer_sizes(prog, gpu.rank, "i"), gpu.input_chunks),
              !.output_chunks = max(buffer_sizes(prog, gpu.rank, "o"), gpu.output_chunks),
              !.scratch_chunks = max(buffer_sizes(prog, gpu.rank, "s"), gpu.scratch_chunks)]]

\* the scratch sizes are left as each gpu inferred them
KeepOwnScratch(prog, gpus) == gpus

\* LL: every gpu gets the largest scratch size
UnifyScratch(prog, gpus) ==
    IF prog.protocol = "LL"
    THEN LET max_scratch == SeqMax([g \in 1..Len(gpus) |-> gpus[g].scratch_chunks])
         IN [g \in 1..Len(gpus) |-> [gpus[g] EXCEPT !.scratch_chunks = max_scratch]]
    ELSE gpus

(***************************************************************************)
(* Stage 2: channel info for each gpu and threadblock.                     *)
(***************************************************************************)
Channel(srcBuffer, dstBuffer, type, connected_to) ==
    [srcBuffer |-> srcBuffer, dstBuffer |-> dstBuffer, type |-> type,
     connected_to |-> connected_to]

\* Python's order on lists: the first differing element decides, a proper
\* prefix is smaller.  connected_to is kept as a list of ranks throughout
\* (one rank for sm/proxy channels, the declared rank list for nvls).
RECURSIVE LexLess(_, _)
LexLess(s, t) ==
    IF t = <<>> THEN FALSE
    ELSE IF s = <<>> THEN TRUE
    ELSE IF Head(s) # Head(t) THEN Head(s) < Head(t)
    ELSE LexLess(Tail(s), Tail(t))

\* order on the tuples (tb.id, ch.connected_to)
TupleLessByTbOnly(a, b) == a.tb < b.tb

TupleLess(a, b) == a.tb < b.tb \/ (a.tb = b.tb /\ LexLess(a.to, b.to))

\* sorted(value): stable insertion into an already sorted list
RECURSIVE InsertTuple(_, _)
InsertTuple(x, s) ==
    IF s = <<>> THEN <<x>>
    ELSE IF TupleLess(x, Head(s)) THEN <<x>> \o s
    ELSE <<Head(s)>> \o InsertTuple(x, Tail(s))

RECURSIVE SortedTuples(_)
SortedTuples(s) ==
    IF s = <<>> THEN <<>>
    ELSE InsertTuple(s[Len(s)], SortedTuples(SubSeq(s, 1, Len(s) - 1)))

\* sorted(gpu.threadblocks, key=lambda tb: tb.id), stable
RECURSIVE InsertTb(_, _)
InsertTb(x, s) ==
    IF s = <<>> THEN <<x>>
    ELSE IF x.id < Head(s).id THEN <<x>> \o s
    ELSE <<Head(s)>> \o InsertTb(x, Tail(s))

RECURSIVE SortedTbs(_)
SortedTbs(s) ==
    IF s = <<>> THEN <<>>
    ELSE InsertTb(s[Len(s)], SortedTbs(SubSeq(s, 1, Len(s) - 1)))

\* chan_dict is a dict in insertion order: a list of (key, value) items
ChanKey(ch) == <<ch.srcBuffer, ch.dstBuffer, ch.type>>

HasKey(dict, key) == \E i \in 1..Len(dict) : dict[i].key = key

Lookup(dict, key) == (CHOOSE i \in 1..Len(dict) : dict[i].key = key)

\* a channel whose rank set the key already lists is not appended again
AddChannelOnce(dict, tbid, ch) ==
    LET key == ChanKey(ch)
        item == [tb |-> tbid, to |-> ch.connected_to]
    IN IF ~HasKey(dict, key)
       THEN Append(dict, [key |-> key, value |-> <<item>>])
       ELSE IF \E e \in Range(dict[Lookup(dict, key)].value) :
                   Range(e.to) = Range(ch.connected_to)
       THEN dict
       ELSE [dict EXCEPT ![Lookup(dict, key)].value = Append(@, item)]

AddChannel(dict, tbid, ch) ==
    LET key == ChanKey(ch)
        item == [tb |-> tbid, to |-> ch.connected_to]
    IN IF ~HasKey(dict, key)
       THEN Append(dict, [key |-> key, value |-> <<item>>])
       ELSE [dict EXCEPT ![Lookup(dict, key)].value = Append(@, item)]

RECURSIVE AddChannels(_, _, _)
AddChannels(dict, tbid, chans) ==
    IF chans = <<>> THEN dict
    ELSE AddChannels(AddChannel(dict, tbid, Head(chans)), tbid, Tail(chans))

RECURSIVE CollectChannels(_, _)
CollectChannels(dict, tbs) ==
    IF tbs = <<>> THEN dict
    ELSE CollectChannels(AddChannels(dict, Head(tbs).id, Head(tbs).channels), Tail(tbs))

BuildChanDict(tbs) ==
    LET chan_dict == CollectChannels(<<>>, tbs)
    IN [i \in 1..Len(chan_dict) |->
          [chan_dict[i] EXCEPT !.value = SortedTuples(@)]]

AllocateChannels(gpu) ==
    LET tbs == SortedTbs(gpu.threadblocks)
    IN [gpu EXCEPT !.threadblocks = tbs, !.channels = BuildChanDict(tbs)]

(***************************************************************************)
(* Stage 3: dependency simplification.                                     *)
(***************************************************************************)
\* the dependencies on a signal are removed from every op
RemoveSignalDependsEverywhere(gpu) ==
    [gpu EXCEPT !.threadblocks =
        [t \in 1..Len(gpu.threadblocks) |->
            [gpu.threadblocks[t] EXCEPT !.ops =
                [k \in 1..Len(@) |->
                    [@[k] EXCEPT !.depends =
                        SelectSeq(@, LAMBDA dep : Deref(gpu, dep).inst # "signal")]]]]]

\* wait after signal: the wait depends on the remote chunk
RemoveWaitAfterSignal(gpu) ==
    [gpu EXCEPT !.threadblocks =
        [t \in 1..Len(gpu.threadblocks) |->
            [gpu.threadblocks[t] EXCEPT !.ops =
                [k \in 1..Len(@) |->
                    IF @[k].inst = "wait"
                    THEN [@[k] EXCEPT !.depends =
                            SelectSeq(@, LAMBDA dep : Deref(gpu, dep).inst # "signal")]
                    ELSE @[k]]]]]

\* the op's dependencies join running_depends before they are filtered
RECURSIVE FilterRedundantAfterAdd(_, _)
FilterRedundantAfterAdd(ops, running_depends) ==
    IF ops = <<>> THEN <<>>
    ELSE LET seen == running_depends \o Head(ops).depends
             depends == SelectSeq(Head(ops).depends, LAMBDA dep : dep \notin Range(seen))
         IN <<[Head(ops) EXCEPT !.depends = depends]>>
            \o FilterRedundantAfterAdd(Tail(ops), seen)

\* running_depends: a dependency an earlier op of the threadblock lists is dropped
RECURSIVE FilterRedundant(_, _)
FilterRedundant(ops, running_depends) ==
    IF ops = <<>> THEN <<>>
    ELSE LET depends == SelectSeq(Head(ops).depends,
                                  LAMBDA dep : dep \notin Range(running_depends))
         IN <<[Head(ops) EXCEPT !.depends = depends]>>
            \o FilterRedundant(Tail(ops), running_depends \o depends)

RemoveRedundantDepends(gpu) ==
    [gpu EXCEPT !.threadblocks =
        [t \in 1..Len(gpu.threadblocks) |->
            [gpu.threadblocks[t] EXCEPT !.ops = FilterRedundant(@, <<>>)]]]

(***************************************************************************)
(* Stage 4: operations with dependencies are expanded with no-ops.         *)
(***************************************************************************)
Nop(depends) == Op(-1, "nop", NoChunk, NoChunk, <<>>, <<>>, depends, "none")

\* the marker is emitted after the op it belongs to
ExpandOpMarkerAfter(gpu, new_ops, op) ==
    LET deps == SelectSeq(op.depends, LAMBDA dep : Deref(gpu, dep).inst # "barrier")
    IN IF op.inst \in _insts_no_need_sync_barrier \/ deps = <<>>
       THEN Append(new_ops, op)
       ELSE new_ops \o <<op, Nop(deps)>>

\* a marker of its own is emitted even after a barrier or no-op
ExpandOpNoCoalesce(gpu, new_ops, op) ==
    LET deps == SelectSeq(op.depends, LAMBDA dep : Deref(gpu, dep).inst # "barrier")
    IN IF op.inst \in _insts_no_need_sync_barrier \/ deps = <<>>
       THEN Append(new_ops, op)
       ELSE new_ops \o <<Nop(deps), op>>

\* one iteration of "for op in tb.ops" on new_ops
ExpandOp(gpu, new_ops, op) ==
    IF op.inst \in _insts_no_need_sync_barrier
    THEN Append(new_ops, op)
    ELSE LET nop == Nop(SelectSeq(op.depends,
                                  LAMBDA dep : Deref(gpu, dep).inst # "barrier"))
             n == Len(new_ops)
         IN IF n > 0 /\ new_ops[n].inst \in {"barrier", "nop"}
            THEN Append([new_ops EXCEPT ![n].depends = @ \o nop.depends], op)
            ELSE IF Len(nop.depends) > 0
            THEN new_ops \o <<nop, op>>
            ELSE Append(new_ops, op)

RECURSIVE ExpandOps(_, _, _)
ExpandOps(gpu, new_ops, ops) ==
    IF ops = <<>> THEN new_ops
    ELSE ExpandOps(gpu, ExpandOp(gpu, new_ops, Head(ops)), Tail(ops))

InsertNops(gpu) ==
    [gpu EXCEPT !.threadblocks =
        [t \in 1..Len(gpu.threadblocks) |->
            [gpu.threadblocks[t] EXCEPT !.ops = ExpandOps(gpu, <<>>, @)]]]

\* steps counted from 1
RenumberFromOne(gpu) ==
    [gpu EXCEPT !.threadblocks =
        [t \in 1..Len(gpu.threadblocks) |->
            [gpu.threadblocks[t] EXCEPT !.ops =
                [i \in 1..Len(@) |->
                    [@[i] EXCEPT !.step = i, !.tb = gpu.threadblocks[t].id]]]]]

\* steps are the positions from before marker insertion: markers are not counted
RenumberBeforeInsertion(gpu) ==
    [gpu EXCEPT !.threadblocks =
        [t \in 1..Len(gpu.threadblocks) |->
            LET ops == gpu.threadblocks[t].ops
            IN [gpu.threadblocks[t] EXCEPT !.ops =
                  [i \in 1..Len(ops) |->
                      [ops[i] EXCEPT
                          !.step = Cardinality({j \in 1..(i - 1) : ops[j].uid # -1}),
                          !.tb = gpu.threadblocks[t].id]]]]]

\* update step and tid for ops
Renumber(gpu) ==
    [gpu EXCEPT !.threadblocks =
        [t \in 1..Len(gpu.threadblocks) |->
            [gpu.threadblocks[t] EXCEPT !.ops =
                [i \in 1..Len(@) |->
                    [@[i] EXCEPT !.step = i - 1, !.tb = gpu.threadblocks[t].id]]]]]

(***************************************************************************)
(* dump_to_json.  A JSON value is tagged with its Python type so that      *)
(* remove_empty_fields can compare it with None, "", [] and {}.            *)
(***************************************************************************)
PyNone == [k |-> "none", v |-> 0]

PyInt(n) == [k |-> "int", v |-> n]

PyStr(str) == [k |-> "str", v |-> str]

PyList(l) == [k |-> "list", v |-> l]

PyDict(d) == [k |-> "dict", v |-> d]

BufOrd(b) == CASE b = "i" -> 0 [] b = "o" -> 1 [] b = "s" -> 2 [] OTHER -> 3

\* sorted(list(eles)) of a rank list
RECURSIVE InsertRank(_, _)
InsertRank(x, s) ==
    IF s = <<>> THEN <<x>>
    ELSE IF x < Head(s) THEN <<x>> \o s
    ELSE <<Head(s)>> \o InsertRank(x, Tail(s))

RECURSIVE SortedRanks(_)
SortedRanks(s) ==
    IF s = <<>> THEN <<>>
    ELSE InsertRank(s[Len(s)], SortedRanks(SubSeq(s, 1, Len(s) - 1)))

\* sorted(channels, key=lambda x: (x["srcbuff"], x["dstbuff"])), stable
ChanObjLess(a, b) ==
    \/ BufOrd(a.srcbuff) < BufOrd(b.srcbuff)
    \/ (a.srcbuff = b.srcbuff /\ BufOrd(a.dstbuff) < BufOrd(b.dstbuff))

RECURSIVE InsertChanObj(_, _)
InsertChanObj(x, s) ==
    IF s = <<>> THEN <<x>>
    ELSE IF ChanObjLess(x, Head(s)) THEN <<x>> \o s
    ELSE <<Head(s)>> \o InsertChanObj(x, Tail(s))

RECURSIVE SortedChanObjs(_)
SortedChanObjs(s) ==
    IF s = <<>> THEN <<>>
    ELSE InsertChanObj(s[Len(s)], SortedChanObjs(SubSeq(s, 1, Len(s) - 1)))

\* gpu_instance["channels"]
GpuChannels(prog, gpu) ==
    LET objs == [i \in 1..Len(gpu.channels) |->
                    LET key == gpu.channels[i].key
                        to == [j \in 1..Len(gpu.channels[i].value) |->
                                  gpu.channels[i].value[j].to]
                    IN [srcbuff |-> key[1], dstbuff |-> key[2], type |-> key[3],
                        connectedTo |-> IF key[3] = "nvls"
                                        THEN [j \in 1..Len(to) |-> SortedRanks(to[j])]
                                        ELSE to]]
        kept == SortedChanObjs(SelectSeq(objs, LAMBDA x : x.type # "none"))
        max_scratch == SeqMax([g \in 1..Len(prog.gpus) |-> prog.gpus[g].scratch_chunks])
        max_input == SeqMax([g \in 1..Len(prog.gpus) |-> prog.gpus[g].input_chunks])
        max_output == SeqMax([g \in 1..Len(prog.gpus) |-> prog.gpus[g].output_chunks])
    IN [i \in 1..Len(kept) |->
          IF kept[i].type = "nvls"
          THEN LET buffer_size == IF kept[i].srcbuff = "i" THEN max_input
                                  ELSE IF kept[i].srcbuff = "o" THEN max_output
                                  ELSE max_scratch
               IN [buff |-> kept[i].srcbuff, type |-> kept[i].type,
                   rankGroups |-> [j \in 1..Len(kept[i].connectedTo) |->
                                      [size |-> buffer_size,
                                       ranks |-> kept[i].connectedTo[j]]]]
          ELSE kept[i]]

\* positions (0-based) of the entries of a key's list that belong to tb
RECURSIVE ChanIdsFrom(_, _, _)
ChanIdsFrom(channels, tbid, id) ==
    IF channels = <<>> THEN <<>>
    ELSE (IF Head(channels).tb = tbid THEN <<id>> ELSE <<>>)
         \o ChanIdsFrom(Tail(channels), tbid, id + 1)

ChanIds(channels, tbid) == ChanIdsFrom(channels, tbid, 0)

\* tb_channel_dict: the keys under which tb owns a channel
TbChannelDict(gpu, tb) ==
    LET objs == [i \in 1..Len(gpu.channels) |->
                    LET key == gpu.channels[i].key
                        mine == SelectSeq(gpu.channels[i].value, LAMBDA ele : ele.tb = tb.id)
                    IN [key |-> key, srcbuff |-> key[1], dstbuff |-> key[2],
                        type |-> key[3],
                        chanIds |-> ChanIds(gpu.channels[i].value, tb.id),
                        connectedTo |-> [j \in 1..Len(mine) |-> mine[j].to]]]
    IN SelectSeq(objs, LAMBDA obj : Len(obj.chanIds) > 0)

TbChannels(gpu, tb) ==
    LET tb_channels == SortedChanObjs(SelectSeq(TbChannelDict(gpu, tb),
                                                LAMBDA x : x.type # "none"))
    IN [i \in 1..Len(tb_channels) |->
          [src |-> tb_channels[i].srcbuff, dst |-> tb_channels[i].dstbuff,
           ctype |-> tb_channels[i].type, cids |-> tb_channels[i].chanIds]]

Enumerate(s) == [i \in 1..Len(s) |-> i]

\* get_channel_ids; the ids count from `first` (enumerate counts from 0)
ChannelIdsFrom(chunk_list, tb_channel_dict, key, first) ==
    LET connectedTo == tb_channel_dict[Lookup(tb_channel_dict, key)].connectedTo
    IN IF key[3] = "nvls"
       THEN LET ranks == {chunk_list[c].rank : c \in 1..Len(chunk_list)}
                hits == SelectSeq(Enumerate(connectedTo),
                                  LAMBDA i : Range(connectedTo[i]) = ranks)
            IN [j \in 1..Len(hits) |-> [id |-> hits[j] - 1 + first]]
       ELSE Flatten([c \in 1..Len(chunk_list) |->
                LET hits == SelectSeq(Enumerate(connectedTo),
                                      LAMBDA i : connectedTo[i] = <<chunk_list[c].rank>>)
                IN [j \in 1..Len(hits) |->
                      [id |-> hits[j] - 1 + first, off |-> chunk_list[c].index]]])

get_channel_ids_one_based(chunk_list, tb_channel_dict, key) ==
    ChannelIdsFrom(chunk_list, tb_channel_dict, key, 1)

get_channel_ids(chunk_list, tb_channel_dict, key) ==
    ChannelIdsFrom(chunk_list, tb_channel_dict, key, 0)

\* tb_channel_dict[key] raises KeyError: nvls looks the key up at once, the
\* other kinds once per chunk
LookupRaises(chunk_list, tb_channel_dict, key) ==
    /\ ~HasKey(tb_channel_dict, key)
    /\ (key[3] = "nvls" \/ chunk_list # <<>>)

\* the instruction kinds whose branch resolves src / dst channel ids
SrcIdInsts ==
    {"wait", "read_reduce_copy", "read_reduce_copy_send", "get",
     "group_load_reduce_store"}

DstIdInsts ==
    {"signal", "flush", "put", "put_packet", "put_with_signal",
     "put_with_signal_and_flush", "read_reduce_copy_send", "reduce_send",
     "reduce_send_packet", "group_load_reduce_store"}

SendInsts == {"read_reduce_copy_send", "reduce_send", "reduce_send_packet"}

\* the key each branch passes to get_channel_ids
SrcIdKey(op) == <<op.src.buffer, op.dst.buffer, op.channel_type>>

DstIdKey(op) ==
    IF op.inst = "read_reduce_copy_send"
    THEN <<op.dst.buffer, op.dsts[1].buffer, op.channel_type>>
    ELSE IF op.inst \in {"reduce_send", "reduce_send_packet"}
    THEN <<op.dst.buffer, op.dsts[1].buffer, "sm">>
    ELSE <<op.src.buffer, op.dst.buffer, op.channel_type>>

\* the Python exceptions of one op's branch: None.buffer, dsts[0] of an empty
\* list, a key missing from tb_channel_dict
OpRaises(op, tb_channel_dict) ==
    \/ /\ op.inst \in (SrcIdInsts \cup DstIdInsts) \ {"reduce_send", "reduce_send_packet"}
       /\ (op.src = NoChunk \/ op.dst = NoChunk)
    \/ /\ op.inst \in SendInsts
       /\ (op.dst = NoChunk \/ op.dsts = <<>>)
    \/ /\ op.inst \in SrcIdInsts
       /\ LookupRaises(op.srcs, tb_channel_dict, SrcIdKey(op))
    \/ /\ op.inst \in DstIdInsts
       /\ LookupRaises(op.dsts, tb_channel_dict, DstIdKey(op))

\* Op.cnt(): the size of the source chunk, else of the destination chunk
cnt(op) ==
    IF op.src # NoChunk THEN op.src.size
    ELSE IF op.dst # NoChunk THEN op.dst.size
    ELSE 0

BuffOffs(chunks) ==
    [c \in 1..Len(chunks) |-> [buff |-> chunks[c].buffer, off |-> chunks[c].index]]

\* v in [None, "", [], {}]
IsEmptyField(val) ==
    \/ val.k = "none"
    \/ (val.k = "str" /\ val.v = "")
    \/ (val.k = "list" /\ val.v = <<>>)
    \/ (val.k = "dict" /\ DOMAIN val.v = {})

\* every falsy value is dropped, 0 included
remove_falsy_fields(d) ==
    [f \in {g \in DOMAIN d : ~IsEmptyField(d[g]) /\ ~(d[g].k = "int" /\ d[g].v = 0)}
        |-> d[f]]

remove_empty_fields(d) ==
    [f \in {g \in DOMAIN d : ~IsEmptyField(d[g])} |-> d[f]]

\* the record of one op: the branch on op.inst, then the generic fields
OpRecord(gpu, tb_channel_dict, op) ==
    IF op.inst = "nop"
    THEN [name |-> PyStr(op.inst),
          deps |-> PyList([d \in 1..Len(op.depends) |->
                      [tb |-> Deref(gpu, op.depends[d]).tb,
                       step |-> Deref(gpu, op.depends[d]).step]])]
    ELSE IF op.inst = "barrier"
    THEN [name |-> PyStr(op.inst), nthread_blocks |-> PyInt(Len(op.extra.tb_list)),
          barrier_id |-> PyInt(op.extra.barrier_id)]
    ELSE
    LET inst == op.inst
        src_channel_ids == IF inst \in SrcIdInsts
                           THEN get_channel_ids(op.srcs, tb_channel_dict, SrcIdKey(op))
                           ELSE <<>>
        dst_channel_ids == IF inst \in DstIdInsts
                           THEN get_channel_ids(op.dsts, tb_channel_dict, DstIdKey(op))
                           ELSE <<>>
        i_buff == IF inst \in SrcIdInsts \ {"group_load_reduce_store"}
                  THEN PyDict([src |-> op.src.buffer, dst |-> op.dst.buffer])
                  ELSE PyNone
        o_buff == IF inst \in SendInsts
                  THEN PyDict([src |-> op.dst.buffer, dst |-> op.dsts[1].buffer])
                  ELSE IF inst \in DstIdInsts \ {"group_load_reduce_store"}
                  THEN PyDict([src |-> op.src.buffer, dst |-> op.dst.buffer])
                  ELSE PyNone
        srcs == IF inst \in {"reduce_send", "reduce_send_packet", "reduce",
                             "reduce_packet", "put", "put_packet", "put_with_signal",
                             "put_with_signal_and_flush"}
                THEN BuffOffs(op.srcs) ELSE <<>>
        dsts == IF inst = "get" THEN BuffOffs(op.dsts) ELSE <<>>
        src == IF inst \in {"read_reduce_copy", "read_reduce_copy_send", "reduce_send",
                            "reduce_send_packet", "reduce", "reduce_packet"}
               THEN op.dst
               ELSE IF inst \in {"copy", "copy_packet", "transform_to_packet",
                                 "group_load_reduce_store"}
               THEN op.src ELSE NoChunk
        dst == IF inst \in {"read_reduce_copy", "read_reduce_copy_send", "reduce_send",
                            "reduce_send_packet", "reduce", "reduce_packet", "copy",
                            "copy_packet", "transform_to_packet",
                            "group_load_reduce_store"}
               THEN op.dst ELSE NoChunk
    IN [name |-> PyStr(inst),
        i_buff |-> i_buff,
        i_cids |-> PyList(src_channel_ids),
        o_buff |-> o_buff,
        o_cids |-> PyList(dst_channel_ids),
        src |-> IF src # NoChunk THEN PyInt(src.rank) ELSE PyNone,
        srcs |-> IF srcs # <<>> THEN PyList(srcs) ELSE PyNone,
        dsts |-> IF dsts # <<>> THEN PyList(dsts) ELSE PyNone,
        srcbuff |-> IF src # NoChunk THEN PyStr(src.buffer) ELSE PyNone,
        srcoff |-> IF src # NoChunk THEN PyInt(src.index) ELSE PyNone,
        dst |-> IF dst # NoChunk THEN PyInt(dst.rank) ELSE PyNone,
        dstbuff |-> IF dst # NoChunk THEN PyStr(dst.buffer) ELSE PyNone,
        dstoff |-> IF dst # NoChunk THEN PyInt(dst.index) ELSE PyNone,
        ctype |-> PyStr(op.channel_type),
        cnt |-> PyInt(cnt(op))]

\* the threadblocks dump_to_json serializes, and the ops of one it emits
EmittedTbs(gpu) == SelectSeq(gpu.threadblocks, LAMBDA tb : ~(tb.id < 0))

EmittedOps(tb) == SelectSeq(tb.ops, LAMBDA op : op.tb # -1)

DumpRaises(prog) ==
    \E g \in 1..Len(prog.gpus) :
        \E t \in 1..Len(EmittedTbs(prog.gpus[g])) :
            LET tb == EmittedTbs(prog.gpus[g])[t]
            IN \E k \in 1..Len(EmittedOps(tb)) :
                  OpRaises(EmittedOps(tb)[k], TbChannelDict(prog.gpus[g], tb))

GpuInstance(prog, g) ==
    LET gpu == prog.gpus[g]
        tbs == EmittedTbs(gpu)
    IN [id |-> g - 1,
        inputChunks |-> gpu.input_chunks,
        outputChunks |-> gpu.output_chunks,
        scratchChunks |-> gpu.scratch_chunks,
        channels |-> GpuChannels(prog, gpu),
        threadblocks |->
            [t \in 1..Len(tbs) |->
                LET ops == EmittedOps(tbs[t])
                    tb_channel_dict == TbChannelDict(gpu, tbs[t])
                IN [id |-> tbs[t].id,
                    ops |-> [k \in 1..Len(ops) |->
                                remove_empty_fields(OpRecord(gpu, tb_channel_dict, ops[k]))],
                    channels |-> TbChannels(gpu, tbs[t])]]]

dump_to_json(prog) ==
    IF DumpRaises(prog)
    THEN [status |-> "error", gpus |-> <<>>]
    ELSE [status |-> "ok", protocol |-> prog.protocol,
          gpus |-> [g \in 1..Len(prog.gpus) |-> GpuInstance(prog, g)]]

(***************************************************************************)
(* ir_to_json, one step per stage.                                         *)
(***************************************************************************)
SetGpus(prog, gpus) == [prog EXCEPT !.gpus = gpus]

EachGpu(prog, stage) ==
    [g \in 1..Len(prog.gpus) |->
        CASE stage = "channels" -> AllocateChannels(prog.gpus[g])
          [] stage = "wait" -> RemoveWaitAfterSignal(prog.gpus[g])
          [] stage = "redundant" -> RemoveRedundantDepends(prog.gpus[g])
          [] stage = "nops" -> InsertNops(prog.gpus[g])
          [] stage = "renumber" -> Renumber(prog.gpus[g])]

BufferSizes ==
    /\ pc = "start"
    /\ program' = SetGpus(program, UnifyScratch(program, InferBufferSizes(program)))
    /\ pc' = "sized"
    /\ UNCHANGED <<input, simplified, out>>

Channels ==
    /\ pc = "sized"
    /\ program' = SetGpus(program, EachGpu(program, "channels"))
    /\ pc' = "allocated"
    /\ UNCHANGED <<input, simplified, out>>

WaitAfterSignal ==
    /\ pc = "allocated"
    /\ program' = SetGpus(program, EachGpu(program, "wait"))
    /\ pc' = "decoupled"
    /\ UNCHANGED <<input, simplified, out>>

RedundantDepends ==
    /\ pc = "decoupled"
    /\ program' = SetGpus(program, EachGpu(program, "redundant"))
    /\ simplified' = program'
    /\ pc' = "simplified"
    /\ UNCHANGED <<input, out>>

ExpandNops ==
    /\ pc = "simplified"
    /\ program' = SetGpus(program, EachGpu(program, "nops"))
    /\ pc' = "expanded"
    /\ UNCHANGED <<input, simplified, out>>

UpdateSteps ==
    /\ pc = "expanded"
    /\ program' = SetGpus(program, EachGpu(program, "renumber"))
    /\ pc' = "numbered"
    /\ UNCHANGED <<input, simplified, out>>

Dump ==
    /\ pc = "numbered"
    /\ out' = dump_to_json(program)
    /\ pc' = "done"
    /\ UNCHANGED <<program, input, simplified>>

Next ==
    \/ BufferSizes
    \/ Channels
    \/ WaitAfterSignal
    \/ RedundantDepends
    \/ ExpandNops
    \/ UpdateSteps
    \/ Dump

(***************************************************************************)
(* Input programs.                                                         *)
(***************************************************************************)
Gpu(rank, threadblocks, input_chunks, output_chunks, scratch_chunks) ==
    [rank |-> rank, threadblocks |-> threadblocks, input_chunks |-> input_chunks,
     output_chunks |-> output_chunks, scratch_chunks |-> scratch_chunks,
     channels |-> <<>>]

Threadblock(id, ops, channels) == [id |-> id, ops |-> ops, channels |-> channels]

Program(protocol, gpus) == [protocol |-> protocol, gpus |-> gpus]

Protocols == {"Simple", "LL"}

Start(prog) ==
    /\ program = prog
    /\ input = prog
    /\ simplified = prog
    /\ pc = "start"
    /\ out = [status |-> "none"]

\* Buffer usage: one op on gpu 0 of every scan category, over every buffer and
\* index, with optional list operands; gpu 1 copies inside its scratch buffer.
BufInsts ==
    {"put", "get", "copy", "reduce", "reduce_send", "read_reduce_copy",
     "group_store", "group_load_reduce", "barrier"}

BufOp(inst, src, dst, srcs, dsts) ==
    IF inst = "barrier" THEN Barrier(1, <<>>, <<0>>, 0)
    ELSE Op(1, inst, src, dst, srcs, dsts, <<>>, "sm")

InitBuf ==
    \E inst \in BufInsts, sb \in Buffers, si \in 0..MaxIndex, db \in Buffers,
       decl \in 0..MaxDecl, j \in 0..MaxIndex, protocol \in Protocols :
      LET srcRank == IF inst \in _local_src_insts_mscclpp THEN 0 ELSE 1
          dstRank == IF inst \in _local_dst_insts_mscclpp THEN 0 ELSE 1
          dstsRank == IF inst \in _local_dst_insts_mscclpp \ RemoteDstInsts THEN 0 ELSE 1
      IN \E srcs \in {<<>>, <<Chunk("i", MaxIndex, 2, srcRank)>>,
                      <<Chunk("s", MaxIndex, 2, srcRank)>>},
            dsts \in {<<>>, <<Chunk("o", MaxIndex, 2, dstsRank)>>,
                      <<Chunk("s", MaxIndex + 1, 1, dstsRank)>>} :
           LET op == BufOp(inst, Chunk(sb, si, 1, srcRank), Chunk(db, MaxIndex, 1, dstRank),
                           srcs, dsts)
               chans == <<Channel(sb, db, "sm", <<1>>)>>
               other == Op(1, "copy", Chunk("s", j, 1, 1), Chunk("s", j + 1, 1, 1),
                           <<>>, <<>>, <<>>, "none")
           IN Start(Program(protocol,
                    <<Gpu(0, <<Threadblock(0, <<op>>, chans)>>, decl, decl, decl),
                      Gpu(1, <<Threadblock(0, <<other>>, <<>>)>>, 0, 0, 0)>>))

SpecBuf == InitBuf /\ [][Next]_vars

\* Dependencies: gpu 0 runs threadblock 0 (ops 1, 2, 3) and threadblock 1
\* (ops 11, 12) over one sm channel to rank 1.  A dependency names an op of
\* either threadblock; op 1 may also name the later op 2.
DepOp(uid, inst, depends) ==
    CASE inst = "barrier" -> Barrier(uid, depends, <<0, 1>>, 0)
      [] inst = "wait" -> Op(uid, inst, Chunk("i", 0, 1, 1), Chunk("s", 0, 1, 0),
                             <<Chunk("i", 0, 1, 1)>>, <<>>, depends, "sm")
      [] inst = "copy_packet" -> Op(uid, inst, Chunk("s", 0, 1, 0), Chunk("o", 0, 1, 0),
                                    <<>>, <<>>, depends, "none")
      [] OTHER -> Op(uid, inst, Chunk("i", 0, 1, 0), Chunk("s", 0, 1, 1),
                     <<Chunk("i", 0, 1, 0)>>, <<Chunk("s", 0, 1, 1)>>, depends, "sm")

\* the lists of at most MaxDeps distinct elements of S
RECURSIVE DepLists(_, _)
DepLists(S, n) ==
    IF n = 0 THEN {<<>>}
    ELSE LET shorter == DepLists(S, n - 1)
         IN shorter \cup {Append(l, x) : l \in shorter, x \in S}

DistinctDepLists(S) ==
    {l \in DepLists(S, MaxDeps) : Cardinality(Range(l)) = Len(l)}

InitDep ==
    \E i1 \in {"put", "signal", "barrier"},
       i2 \in {"put", "wait", "copy_packet", "barrier"},
       i3 \in {"put", "wait"},
       i11 \in {"signal", "barrier"},
       d1 \in {<<>>, <<12>>, <<2>>},
       d2 \in DistinctDepLists({1, 11}),
       d3 \in DistinctDepLists({1, 2, 12}) :
      LET chans == <<Channel("i", "s", "sm", <<1>>)>>
          other == Op(1, "copy", Chunk("s", 0, 1, 1), Chunk("o", 0, 1, 1),
                      <<>>, <<>>, <<>>, "none")
      IN Start(Program("Simple",
               <<Gpu(0, <<Threadblock(0, <<DepOp(1, i1, d1), DepOp(2, i2, d2),
                                           DepOp(3, i3, d3)>>, chans),
                          Threadblock(1, <<DepOp(11, i11, <<>>), DepOp(12, "put", <<>>)>>,
                                      chans)>>, 1, 1, 1),
                 Gpu(1, <<Threadblock(0, <<other>>, <<>>)>>, 1, 1, 1)>>))

SpecDep == InitDep /\ [][Next]_vars

\* Channels: gpu 0 lists two threadblocks in either order, one of them
\* possibly a placeholder; each declares sm channels to rank 1 or 2 and nvls
\* channels to the rank lists (1,2), (2,1), (1,3), in any order.  The first
\* listed threadblock runs one op that resolves channel ids.
ChanDecls ==
    {Channel("i", "s", "sm", <<1>>), Channel("i", "s", "sm", <<2>>),
     Channel("i", "i", "nvls", <<1, 2>>), Channel("i", "i", "nvls", <<2, 1>>),
     Channel("i", "i", "nvls", <<1, 3>>)}

RECURSIVE ChanLists(_)
ChanLists(n) ==
    IF n = 0 THEN {<<>>}
    ELSE LET shorter == ChanLists(n - 1)
         IN shorter \cup {Append(l, ch) : l \in shorter, ch \in ChanDecls}

Remote(b, ranks) == [r \in 1..Len(ranks) |-> Chunk(b, r - 1, 1, ranks[r])]

ChanOps ==
    {Op(1, "put", Chunk("i", 0, 1, 0), Chunk("s", 0, 1, ranks[1]),
        <<Chunk("i", 0, 1, 0)>>, Remote("s", ranks), <<>>, "sm") :
            ranks \in {<<1>>, <<2, 1>>}}
    \cup {Op(1, "get", Chunk("i", 1, 1, 2), Chunk("s", 0, 1, 0),
             Remote("i", <<2>>), <<Chunk("s", 0, 1, 0)>>, <<>>, "sm"),
          Op(1, "reduce_send", Chunk("s", 0, 1, 0), Chunk("i", 0, 1, 0),
             <<Chunk("s", 0, 1, 0)>>, Remote("s", <<1>>), <<>>, "sm")}
    \cup {Op(1, "group_load_reduce_store", Chunk("i", 0, 1, 0), Chunk("i", 0, 1, 0),
             Remote("i", ranks), Remote("i", ranks), <<>>, "nvls") :
            ranks \in {<<1, 2>>, <<1, 3>>}}
    \cup {Op(1, inst, Chunk("i", 0, 1, 0), Chunk("i", 0, 1, 0),
             Remote("i", <<1, 2>>), Remote("i", <<1, 2>>), <<>>, "nvls") :
            inst \in {"group_store", "group_load_reduce"}}

InitChan ==
    \E ids \in {<<0, 1>>, <<1, 0>>, <<0, -1>>}, op \in ChanOps,
       chans1 \in ChanLists(MaxChans),
       chans2 \in {<<>>, <<Channel("i", "s", "sm", <<2>>)>>,
                   <<Channel("i", "i", "nvls", <<2, 1>>)>>,
                   <<Channel("i", "i", "nvls", <<1, 3>>)>>} :
      LET copy == Op(11, "copy", Chunk("i", 0, 1, 0), Chunk("o", 0, 1, 0),
                     <<>>, <<>>, <<>>, "none")
          other == Op(1, "copy", Chunk("s", 0, 1, 1), Chunk("o", 0, 1, 1),
                      <<>>, <<>>, <<>>, "none")
      IN Start(Program("Simple",
               <<Gpu(0, <<Threadblock(ids[1], <<op>>, chans1),
                          Threadblock(ids[2], <<copy>>, chans2)>>, 1, 1, 1),
                 Gpu(1, <<Threadblock(0, <<other>>, <<>>)>>, 2, 1, 1)>>))

SpecChan == InitChan /\ [][Next]_vars

(***************************************************************************)
(* Properties of buffer size inference.                                    *)
(***************************************************************************)
SetMax(S) == CHOOSE x \in S : \A y \in S : y <= x

Capacity(gpu, buf) ==
    CASE buf = "i" -> gpu.input_chunks
      [] buf = "o" -> gpu.output_chunks
      [] buf = "s" -> gpu.scratch_chunks

\* every chunk an op names: primary src and dst, every entry of srcs and dsts
ReferencedChunks(op) ==
    ({op.src, op.dst} \cup Range(op.srcs) \cup Range(op.dsts)) \ {NoChunk}

\* the chunks an op names in a buffer of its own device
LocalChunks(op) ==
    (IF op.inst \in _local_src_insts_mscclpp
     THEN {op.src} \cup Range(op.srcs) ELSE {})
    \cup (IF op.inst \in _local_dst_insts_mscclpp THEN {op.dst} ELSE {})
    \cup (IF op.inst \in _local_dst_insts_mscclpp
             /\ op.inst \notin {"read_reduce_copy_send", "reduce_send",
                                "reduce_send_packet"}
          THEN Range(op.dsts) ELSE {})

\* the requirement the ops of a device put on one of its buffers
Requirement(gpu, buf) ==
    SetMax({0} \cup {c.index + c.size :
                        c \in {x \in UNION {LocalChunks(op) : op \in Range(AllOps(gpu))} :
                                  x.buffer = buf}})

OwnCapacity(g, buf) ==
    max(Capacity(input.gpus[g], buf), Requirement(input.gpus[g], buf))

Devices == 1..Len(program.gpus)

\* C1 as stated: after buffer size inference every chunk an op references
\* (primary src, primary dst, every entry of srcs and dsts) ends within the
\* final capacity of its buffer kind on the op's device.
C1_EveryReferencedChunkFits ==
    pc # "start" =>
        \A g \in Devices : \A op \in Range(AllOps(program.gpus[g])) :
            \A c \in ReferencedChunks(op) :
                c.index + c.size <= Capacity(program.gpus[g], c.buffer)

\* C1 amended: after buffer size inference every chunk an op names in a
\* buffer of its own device (src and srcs of the kinds that read a local
\* buffer, dst of the kinds that write one, and dsts of those kinds except
\* read_reduce_copy_send, reduce_send and reduce_send_packet) ends within
\* the final capacity of that buffer on the device.
C1_LocalChunksFit ==
    pc # "start" =>
        \A g \in Devices : \A op \in Range(AllOps(program.gpus[g])) :
            \A c \in LocalChunks(op) :
                c.index + c.size <= Capacity(program.gpus[g], c.buffer)

\* an op whose list operand alone sets the capacity of a buffer, above the
\* declared value
C1_Witness ==
    /\ pc = "done"
    /\ \E op \in Range(AllOps(program.gpus[1])) :
          /\ op.srcs # <<>>
          /\ op.srcs[1] \in LocalChunks(op)
          /\ op.src.buffer # op.srcs[1].buffer
          /\ op.dst.buffer # op.srcs[1].buffer
          /\ op.srcs[1].index + op.srcs[1].size
                = Capacity(program.gpus[1], op.srcs[1].buffer)
          /\ Capacity(input.gpus[1], op.srcs[1].buffer)
                < Capacity(program.gpus[1], op.srcs[1].buffer)

\* C5: under the LL protocol every device ends stage 1 with the same
\* scratch_chunks, the largest scratch requirement of any device (a device's
\* requirement being the larger of its declared and its inferred size), and
\* the document reports that value as scratchChunks of every gpu.
C5_LLScratchUniform ==
    (pc # "start" /\ program.protocol = "LL") =>
        /\ \A g \in Devices :
              program.gpus[g].scratch_chunks
                 = SetMax({OwnCapacity(h, "s") : h \in Devices})
        /\ out.status = "ok" =>
              \A g \in Devices :
                 out.gpus[g].scratchChunks
                    = SetMax({OwnCapacity(h, "s") : h \in Devices})

\* two devices whose own scratch requirements differ report the larger one
C5_Witness ==
    /\ pc = "done"
    /\ program.protocol = "LL"
    /\ out.status = "ok"
    /\ Requirement(input.gpus[1], "s") < Requirement(input.gpus[2], "s")
    /\ Capacity(input.gpus[1], "s") < Requirement(input.gpus[2], "s")
    /\ out.gpus[1].scratchChunks = Requirement(input.gpus[2], "s")
    /\ out.gpus[2].scratchChunks = Requirement(input.gpus[2], "s")

\* C10 as stated: for every device and buffer kind the capacity after stage 1
\* is the maximum of the declared capacity and the requirement inferred from
\* that device's own ops.
C10_CapacityIsOwnMax ==
    pc # "start" =>
        \A g \in Devices : \A buf \in Buffers :
            Capacity(program.gpus[g], buf) = OwnCapacity(g, buf)

\* C10 amended: the capacity after stage 1 is max(declared, inferred from the
\* device's own ops) for input and output, and for scratch unless the
\* protocol is LL, where it is the largest such maximum over all devices; it
\* is never smaller than the declared value.
C10_CapacityIsMaxOrUniform ==
    pc # "start" =>
        \A g \in Devices : \A buf \in Buffers :
            /\ Capacity(program.gpus[g], buf)
                  = IF buf = "s" /\ program.protocol = "LL"
                    THEN SetMax({OwnCapacity(h, "s") : h \in Devices})
                    ELSE OwnCapacity(g, buf)
            /\ Capacity(program.gpus[g], buf) >= Capacity(input.gpus[g], buf)

\* one device keeps a declared capacity above its requirement and grows
\* another buffer above its declared capacity
C10_Witness ==
    /\ pc = "sized"
    /\ program.protocol = "Simple"
    /\ \E b1, b2 \in Buffers :
          /\ Requirement(input.gpus[1], b1) < Capacity(input.gpus[1], b1)
          /\ Capacity(program.gpus[1], b1) = Capacity(input.gpus[1], b1)
          /\ Requirement(input.gpus[1], b2) > Capacity(input.gpus[1], b2)
          /\ Capacity(program.gpus[1], b2) = Requirement(input.gpus[1], b2)

(***************************************************************************)
(* Properties of dependency lowering.                                      *)
(***************************************************************************)
TbById(gpu, id) == CHOOSE tb \in Range(gpu.threadblocks) : tb.id = id

DocTb(g, id) == CHOOSE tb \in Range(out.gpus[g].threadblocks) : tb.id = id

PosOf(ops, uid) == CHOOSE k \in 1..Len(ops) : ops[k].uid = uid

Emitted == pc = "done" /\ out.status = "ok"

\* the {tb, step} pair the document gives for a dependency on op uid
DepRef(g, uid) ==
    [tb |-> Deref(program.gpus[g], uid).tb, step |-> Deref(program.gpus[g], uid).step]

\* the positions before op k of the final list whose instruction is one of
\* kinds and carries dep, and whether the document shows dep there
Carriers(final, dep, kinds) ==
    {m \in 1..Len(final) : final[m].inst \in kinds /\ dep \in Range(final[m].depends)}

Shown(g, tbid, m, dep) ==
    LET rec == DocTb(g, tbid).ops[m]
    IN "deps" \in DOMAIN rec /\ DepRef(g, dep) \in Range(rec["deps"].v)

\* C2 as stated: every dependency an op still lists after simplification,
\* unless its target is a barrier, is carried by exactly one no-op marker of
\* the final op list, placed before the op, whose serialized deps contain it.
C2_EveryDepInOneNop ==
    Emitted =>
        \A g \in Devices : \A tb \in Range(simplified.gpus[g].threadblocks) :
            \A op \in Range(tb.ops) : \A dep \in Range(op.depends) :
                Deref(simplified.gpus[g], dep).inst # "barrier" =>
                    LET final == TbById(program.gpus[g], tb.id).ops
                        carriers == Carriers(final, dep, {"nop"})
                    IN /\ Cardinality(carriers) = 1
                       /\ \A m \in carriers :
                             /\ m < PosOf(final, op.uid)
                             /\ Shown(g, tb.id, m, dep)

\* C2 amended: every dependency that an op other than copy_packet,
\* reduce_packet, reduce_send_packet and barrier still lists after
\* simplification, unless its target is a barrier, is carried by exactly one
\* instruction of the final op list: the no-op or barrier immediately before
\* the op.  A no-op marker shows it in its serialized deps; a barrier that
\* absorbed it is serialized without deps.
C2_DepsCarriedOnce ==
    Emitted =>
        \A g \in Devices : \A tb \in Range(simplified.gpus[g].threadblocks) :
            \A op \in Range(tb.ops) : \A dep \in Range(op.depends) :
                (/\ Deref(simplified.gpus[g], dep).inst # "barrier"
                 /\ op.inst \notin {"copy_packet", "reduce_packet",
                                    "reduce_send_packet", "barrier"}) =>
                    LET final == TbById(program.gpus[g], tb.id).ops
                        carriers == Carriers(final, dep, {"nop", "barrier"})
                    IN /\ carriers = {PosOf(final, op.uid) - 1}
                       /\ \A m \in carriers :
                             IF final[m].inst = "nop"
                             THEN Shown(g, tb.id, m, dep)
                             ELSE "deps" \notin DOMAIN DocTb(g, tb.id).ops[m]

\* op 3 follows a put and lists two dependencies, one into the other
\* threadblock: its marker shows both
C2_Witness ==
    /\ Emitted
    /\ LET final == TbById(program.gpus[1], 0).ops
           k == PosOf(final, 3)
       IN /\ Len(Deref(simplified.gpus[1], 3).depends) = 2
          /\ 12 \in Range(Deref(simplified.gpus[1], 3).depends)
          /\ final[k - 1].inst = "nop"
          /\ Len(DocTb(1, 0).ops[k - 1]["deps"].v) = 2
          /\ k = Len(final)
          /\ k > 4

\* the nop records of the document: <<g, tb id, 0-based position, index in deps>>
MarkerRefs ==
    {r \in UNION {UNION {UNION {
            {<<g, tb.id, m - 1, q>> :
                q \in 1..(IF "deps" \in DOMAIN tb.ops[m] THEN Len(tb.ops[m]["deps"].v) ELSE 0)} :
            m \in 1..Len(tb.ops)} :
            tb \in Range(out.gpus[g].threadblocks)} :
            g \in 1..Len(out.gpus)} : TRUE}

RefOf(r) == DocTb(r[1], r[2]).ops[r[3] + 1]["deps"].v[r[4]]

MarkerOf(r) == TbById(program.gpus[r[1]], r[2]).ops[r[3] + 1]

Dependent(r) == TbById(program.gpus[r[1]], r[2]).ops[r[3] + 2]

InputBefore(g, a, b) ==
    \E tb \in Range(input.gpus[g].threadblocks) :
        \E i, j \in 1..Len(tb.ops) : i < j /\ tb.ops[i].uid = a /\ tb.ops[j].uid = b

Perms(n) == {p \in [1..n -> 1..n] : \A i, j \in 1..n : p[i] = p[j] => i = j}

ChannelOrders(tb) ==
    {[tb EXCEPT !.channels = [i \in 1..Len(tb.channels) |-> tb.channels[q[i]]]] :
        q \in Perms(Len(tb.channels))}

\* every listing of the same threadblocks and channel declarations
Reorderings(tbs) ==
    LET n == Len(tbs)
        choices == {f \in [1..n -> UNION {ChannelOrders(tbs[i]) : i \in 1..n}] :
                       \A i \in 1..n : f[i] \in ChannelOrders(tbs[i])}
    IN {[i \in 1..n |-> f[p[i]]] : f \in choices, p \in Perms(n)}

\* the channel table as a mapping key -> sorted list
AsMapping(dict) == {<<dict[i].key, dict[i].value>> : i \in 1..Len(dict)}

ValueOf(dict, key) == dict[Lookup(dict, key)].value

\* the declarations of a device under one key: <<threadblock index, position>>
Declarations(gpu, key) ==
    {d \in UNION {{<<t, c>> : c \in 1..Len(gpu.threadblocks[t].channels)} :
                     t \in 1..Len(gpu.threadblocks)} :
        ChanKey(gpu.threadblocks[d[1]].channels[d[2]]) = key}

DeclaredTo(gpu, d) == gpu.threadblocks[d[1]].channels[d[2]].connected_to

NvlsEntries(g) == {c \in Range(out.gpus[g].channels) : c.type = "nvls"}

\* C4 as stated: nvls channels of one device under the same key whose rank
\* sets are equal are one channel: the rankGroups of an emitted multicast
\* entry are pairwise different rank sets.
C4_EqualRankSetsAreOneChannel ==
    Emitted =>
        \A g \in Devices : \A c \in NvlsEntries(g) :
            \A i, j \in 1..Len(c.rankGroups) :
                c.rankGroups[i].ranks = c.rankGroups[j].ranks => i = j

\* C4 amended: every nvls declaration of a device keeps its own channel: the
\* emitted entry of a key has one rankGroups element per declaration under
\* that key, each the sorted rank list of its declaration with the resolved
\* buffer size, so that declarations that differ only in rank order appear
\* as equal rankGroups elements.
C4_OneRankGroupPerDeclaration ==
    Emitted =>
        \A g \in Devices : \A key \in {ChanKey(ch) : ch \in ChanDecls} :
            key[3] = "nvls" =>
                LET decls == Declarations(input.gpus[g], key)
                    entries == {c \in NvlsEntries(g) : c.buff = key[1]}
                IN /\ (decls = {}) = (entries = {})
                   /\ \A c \in entries :
                         /\ Len(c.rankGroups) = Cardinality(decls)
                         /\ \A d \in decls :
                               LET ranks == SortedRanks(DeclaredTo(input.gpus[g], d))
                               IN Cardinality({i \in 1..Len(c.rankGroups) :
                                                  c.rankGroups[i].ranks = ranks})
                                  = Cardinality({e \in decls :
                                        Range(DeclaredTo(input.gpus[g], e))
                                           = Range(ranks)})
                         /\ \A i \in 1..Len(c.rankGroups) :
                               c.rankGroups[i].size
                                  = SetMax({Capacity(program.gpus[h], key[1]) :
                                               h \in Devices})

\* the rank lists (1,2), (2,1) and (1,3) are declared and three rankGroups
\* are emitted, two of them [1,2]
C4_Witness ==
    /\ Emitted
    /\ {DeclaredTo(input.gpus[1], d) :
           d \in Declarations(input.gpus[1], <<"i", "i", "nvls">>)}
          = {<<1, 2>>, <<2, 1>>, <<1, 3>>}
    /\ \E c \in NvlsEntries(1) :
          /\ Len(c.rankGroups) = 3
          /\ Cardinality({i \in 1..3 : c.rankGroups[i].ranks = <<1, 2>>}) = 2

\* C7: the channel table is the same for every order in which the
\* threadblocks are listed and every order in which a threadblock lists its
\* channels.
C7_ChannelTableIgnoresListingOrder ==
    pc = "allocated" =>
        \A g \in Devices : \A tbs \in Reorderings(input.gpus[g].threadblocks) :
            AsMapping(AllocateChannels([input.gpus[g] EXCEPT !.threadblocks = tbs]).channels)
               = AsMapping(program.gpus[g].channels)

\* the input lists threadblock 1 before threadblock 0 and rank 2 before
\* rank 1, and the key's list is sorted by threadblock id, then rank
C7_Witness ==
    /\ pc = "allocated"
    /\ input.gpus[1].threadblocks[1].id = 1
    /\ input.gpus[1].threadblocks[1].channels
          = <<Channel("i", "s", "sm", <<2>>), Channel("i", "s", "sm", <<1>>)>>
    /\ ValueOf(program.gpus[1].channels, <<"i", "s", "sm">>)
          = <<[tb |-> 0, to |-> <<2>>], [tb |-> 1, to |-> <<1>>], [tb |-> 1, to |-> <<2>>]>>

\* the channel-id lists of the op at position k of an emitted threadblock:
\* <<field, key, chunk list>>
IdLists(op) ==
    (IF op.inst \in SrcIdInsts THEN {<<"i_cids", SrcIdKey(op), op.srcs>>} ELSE {})
    \cup (IF op.inst \in DstIdInsts THEN {<<"o_cids", DstIdKey(op), op.dsts>>} ELSE {})

\* the channels threadblock tbid owns under key, in the order of the table
OwnChannels(gpu, tbid, key) ==
    IF HasKey(gpu.channels, key)
    THEN SelectSeq(ValueOf(gpu.channels, key), LAMBDA ele : ele.tb = tbid)
    ELSE <<>>

Connects(key, to, chunks, entry) ==
    IF key[3] = "nvls"
    THEN Range(to) = {chunks[c].rank : c \in 1..Len(chunks)}
    ELSE \E c \in 1..Len(chunks) : to = <<chunks[c].rank>> /\ entry.off = chunks[c].index

\* C6: every id in the i_cids / o_cids of an emitted op is a position in the
\* emitting threadblock's channel entry for the op's key, and the channel at
\* that position connects to the owning rank of a chunk of the op (to its
\* rank set for multicast).
C6_ChannelIdsConsistent ==
    Emitted =>
        \A g \in Devices : \A tb \in Range(EmittedTbs(program.gpus[g])) :
            \A k \in 1..Len(tb.ops) : \A l \in IdLists(tb.ops[k]) :
                LET rec == DocTb(g, tb.id).ops[k]
                    ids == IF l[1] \in DOMAIN rec THEN rec[l[1]].v ELSE <<>>
                    own == OwnChannels(program.gpus[g], tb.id, l[2])
                    listed == {c \in Range(DocTb(g, tb.id).channels) :
                                  <<c.src, c.dst, c.ctype>> = l[2]}
                IN \A e \in Range(ids) :
                      /\ e.id \in 0..(Len(own) - 1)
                      /\ Connects(l[2], own[e.id + 1].to, l[3], e)
                      /\ \E c \in listed :
                            /\ Len(c.cids) = Len(own)
                            /\ ValueOf(program.gpus[g].channels, l[2])[c.cids[e.id + 1] + 1]
                                  = own[e.id + 1]

\* threadblock 1 owns positions 1 and 2 of the key's list; its put to ranks
\* 2 and 1 resolves to its own channels 1 and 0
C6_Witness ==
    /\ Emitted
    /\ \E tb \in Range(out.gpus[1].threadblocks) :
          /\ tb.id = 1
          /\ \E c \in Range(tb.channels) : c.cids = <<1, 2>>
          /\ "o_cids" \in DOMAIN tb.ops[1]
          /\ tb.ops[1]["o_cids"].v = <<[id |-> 1, off |-> 0], [id |-> 0, off |-> 1]>>

\* a chunk of a channel-id list that no channel of the threadblock under the
\* key connects to
Unmatched(gpu, tb, l) ==
    LET own == OwnChannels(gpu, tb.id, l[2])
    IN IF l[2][3] = "nvls"
       THEN \A i \in 1..Len(own) :
               Range(own[i].to) # {l[3][c].rank : c \in 1..Len(l[3])}
       ELSE \E c \in 1..Len(l[3]) :
               \A i \in 1..Len(own) : own[i].to # <<l[3][c].rank>>

\* C8 as stated: when a chunk of an op that needs remote access matches no
\* connection target of its threadblock under the key, ir_to_json fails and
\* returns no document.
C8_FailedLookupFails ==
    pc = "done" =>
        \A g \in Devices : \A tb \in Range(EmittedTbs(program.gpus[g])) :
            \A op \in Range(tb.ops) : \A l \in IdLists(op) :
                Unmatched(program.gpus[g], tb, l) => out.status = "error"

\* the instruction kinds that have a branch in the per-op if/elif chain
SerializedInsts ==
    SrcIdInsts \cup DstIdInsts
    \cup {"reduce", "reduce_packet", "nop", "barrier", "copy", "copy_packet",
          "transform_to_packet"}

\* C9 as stated: an op whose instruction kind has no branch in the
\* serializer makes dump_to_json fail without a document, rather than
\* falling through to a generic record.
C9_UnsupportedInstructionFails ==
    pc = "done" =>
        \A g \in Devices : \A tb \in Range(EmittedTbs(program.gpus[g])) :
            \A op \in Range(tb.ops) :
                op.inst \notin SerializedInsts => out.status = "error"

(***************************************************************************)
(* Properties of the emitted op records.                                   *)
(***************************************************************************)
\* the ops of the emitted threadblocks: <<g, threadblock, position (1-based)>>
EmittedPositions ==
    {e \in UNION {UNION {{<<g, tb, k>> : k \in 1..Len(EmittedOps(tb))} :
                            tb \in Range(EmittedTbs(program.gpus[g]))} :
                     g \in Devices} : TRUE}

\* instr of an emitted op before remove_empty_fields, and its record in the
\* document
FullRecord(e) ==
    OpRecord(program.gpus[e[1]], TbChannelDict(program.gpus[e[1]], e[2]),
             EmittedOps(e[2])[e[3]])

DocRecord(e) == DocTb(e[1], e[2].id).ops[e[3]]

\* C11: in every emitted op record a field is omitted if and only if its
\* value is None, an empty string, an empty list or an empty object; the
\* fields that are kept keep their value, and an integer value, 0 included,
\* is always kept.
C11_EmptyFieldsOmitted ==
    Emitted =>
        \A e \in EmittedPositions :
            LET full == FullRecord(e)
                rec == DocRecord(e)
            IN /\ DOMAIN rec \subseteq DOMAIN full
               /\ \A f \in DOMAIN full :
                     /\ (f \notin DOMAIN rec) <=> IsEmptyField(full[f])
                     /\ full[f].k = "int" => f \in DOMAIN rec
               /\ \A f \in DOMAIN rec : rec[f] = full[f] /\ ~IsEmptyField(rec[f])

\* a reduce_send is emitted with src rank 0, srcoff 0 and dstoff 0 kept,
\* and without its None i_buff, its empty i_cids and its None dsts
C11_Witness ==
    /\ Emitted
    /\ \E e \in EmittedPositions :
          LET full == FullRecord(e)
              rec == DocRecord(e)
          IN /\ rec["name"] = PyStr("reduce_send")
             /\ full["i_buff"] = PyNone /\ "i_buff" \notin DOMAIN rec
             /\ full["i_cids"] = PyList(<<>>) /\ "i_cids" \notin DOMAIN rec
             /\ "dsts" \notin DOMAIN rec
             /\ "src" \in DOMAIN rec /\ rec["src"] = PyInt(0)
             /\ "srcoff" \in DOMAIN rec /\ rec["srcoff"] = PyInt(0)
             /\ "o_cids" \in DOMAIN rec

(***************************************************************************)
(* Properties of placeholder threadblocks.                                 *)
(***************************************************************************)
\* the device as declared, without its threadblocks of negative id, after
\* channel allocation
WithoutPlaceholders(g) ==
    AllocateChannels([input.gpus[g] EXCEPT
        !.threadblocks = SelectSeq(@, LAMBDA tb : ~(tb.id < 0))])

\* C12 as stated: a threadblock with a negative id is excluded from the
\* output: the document has no threadblock entry with that id, none of its
\* ops are emitted (the entries are the threadblocks of non-negative id with
\* the ops of their final op list), and the channels it declares contribute
\* no entry and no channel-id position to the device's emitted channels (the
\* emitted channels and cids are those of the device without placeholders).
C12_PlaceholderExcluded ==
    Emitted =>
        \A g \in Devices :
            LET kept == SelectSeq(program.gpus[g].threadblocks, LAMBDA tb : ~(tb.id < 0))
                doc == out.gpus[g].threadblocks
            IN /\ Len(doc) = Len(kept)
               /\ \A t \in 1..Len(doc) :
                     /\ doc[t].id = kept[t].id
                     /\ doc[t].id >= 0
                     /\ Len(doc[t].ops) = Len(kept[t].ops)
                     /\ doc[t].channels = TbChannels(WithoutPlaceholders(g), doc[t])
               /\ out.gpus[g].channels = GpuChannels(program, WithoutPlaceholders(g))

(***************************************************************************)
(* Properties of the final renumbering.                                    *)
(***************************************************************************)
\* the threadblock of a device that holds op uid, and the 0-based position
\* of the op in that threadblock's op list
HomeTb(gpu, uid) ==
    CHOOSE tb \in Range(gpu.threadblocks) : \E k \in 1..Len(tb.ops) : tb.ops[k].uid = uid

PositionIn(gpu, uid) == PosOf(HomeTb(gpu, uid).ops, uid) - 1

\* C13: when ir_to_json reaches serialization, the op at position i of every
\* threadblock's final op list has step = i (counted from 0) and tb = the
\* threadblock's id, and every {tb, step} pair in the deps of an emitted
\* marker is the threadblock id and final position of the referenced op.
C13_StepsAreFinalPositions ==
    /\ pc \in {"numbered", "done"} =>
          \A g \in Devices : \A tb \in Range(program.gpus[g].threadblocks) :
              \A i \in 1..Len(tb.ops) :
                  tb.ops[i].step = i - 1 /\ tb.ops[i].tb = tb.id
    /\ Emitted =>
          \A r \in MarkerRefs :
              LET uid == MarkerOf(r).depends[r[4]]
              IN RefOf(r) = [tb |-> HomeTb(program.gpus[r[1]], uid).id,
                             step |-> PositionIn(program.gpus[r[1]], uid)]

\* a marker refers to an op that marker insertion moved: its emitted step is
\* the op's final position, larger than its position before insertion
C13_Witness ==
    /\ Emitted
    /\ \E r \in MarkerRefs :
          LET uid == MarkerOf(r).depends[r[4]]
          IN /\ RefOf(r).step = PositionIn(program.gpus[r[1]], uid)
             /\ RefOf(r).step > PositionIn(simplified.gpus[r[1]], uid)
             /\ r[3] > 0

(***************************************************************************)
(* Properties of the dependency simplifier.                                *)
(***************************************************************************)
\* the positions of an op list whose op lists dep, and all the dependencies
\* the list names
Listing(ops, dep) == {k \in 1..Len(ops) : dep \in Range(ops[k].depends)}

AllDepends(ops) == UNION {Range(ops[k].depends) : k \in 1..Len(ops)}

\* C14: the second simplifier pass drops a dependency from an op exactly
\* when an earlier op of the same threadblock still lists it after the pass
\* (the kept dependencies keep their order); each distinct dependency of the
\* threadblock is then listed by exactly the first op that listed it, and
\* the union of the dependencies of the threadblock is unchanged.
C14_StreamingReduction ==
    [][pc = "decoupled" =>
        \A g \in Devices : \A t \in 1..Len(program.gpus[g].threadblocks) :
            LET before == program.gpus[g].threadblocks[t].ops
                after == program'.gpus[g].threadblocks[t].ops
            IN /\ Len(after) = Len(before)
               /\ \A k \in 1..Len(before) :
                     /\ after[k] = [before[k] EXCEPT !.depends = after[k].depends]
                     /\ after[k].depends
                           = SelectSeq(before[k].depends,
                                 LAMBDA dep : \A j \in 1..(k - 1) :
                                                 dep \notin Range(after[j].depends))
               /\ \A dep \in AllDepends(before) :
                     Listing(after, dep)
                        = {CHOOSE k \in Listing(before, dep) :
                              \A j \in Listing(before, dep) : k <= j}
               /\ AllDepends(after) = AllDepends(before)]_vars

\* ops 2 and 3 of threadblock 0 both list op 1, op 3 lists it first in its
\* list; after the pass only op 2 lists it and op 3 keeps its other
\* dependency
C14_Witness ==
    /\ pc = "simplified"
    /\ LET before == TbById(input.gpus[1], 0).ops
           after == TbById(program.gpus[1], 0).ops
       IN /\ before[2].depends = <<11, 1>>
          /\ before[3].depends = <<1, 12>>
          /\ after[2].depends = <<11, 1>>
          /\ after[3].depends = <<12>>

(***************************************************************************)
(* Properties of marker insertion.                                         *)
(***************************************************************************)
\* the dependencies of an op whose target is not a barrier
Residual(gpu, op) ==
    SelectSeq(op.depends, LAMBDA dep : Deref(gpu, dep).inst # "barrier")

\* the op needs synchronization: it is no packet or barrier instruction and
\* has residual dependencies
NeedsSync(gpu, op) ==
    op.inst \notin _insts_no_need_sync_barrier /\ Residual(gpu, op) # <<>>

\* the op before position q of an op list is a barrier or no-op
AfterMarker(ops, q) == q > 1 /\ ops[q - 1].inst \in {"barrier", "nop"}

\* C15: after marker insertion, an op that is no packet or barrier
\* instruction and has residual non-barrier dependencies is immediately
\* preceded by a new no-op carrying exactly those dependencies, unless the
\* instruction emitted before it is a barrier or no-op: then that
\* instruction's list is extended by them and no marker is emitted.  Every
\* other op is emitted without a marker.  Hence every synthesized marker
\* has a non-empty dependency list and is not preceded by a no-op or
\* barrier.
C15_MarkersInsertedOrCoalesced ==
    pc = "expanded" =>
        \A g \in Devices : \A t \in 1..Len(program.gpus[g].threadblocks) :
            LET gpu == simplified.gpus[g]
                pre == gpu.threadblocks[t].ops
                final == program.gpus[g].threadblocks[t].ops
                own == {q \in 1..Len(pre) :
                           NeedsSync(gpu, pre[q]) /\ ~AfterMarker(pre, q)}
            IN /\ Len(final) = Len(pre) + Cardinality(own)
               /\ \A q \in 1..Len(pre) :
                     LET p == PosOf(final, pre[q].uid)
                         op == pre[q]
                     IN /\ p = q + Cardinality({j \in own : j <= q})
                        /\ final[p].inst = op.inst
                        /\ IF q \in own
                           THEN /\ final[p - 1].inst = "nop"
                                /\ final[p - 1].depends = Residual(gpu, op)
                           ELSE p > 1 => final[p - 1].uid = pre[q - 1].uid
                        /\ final[p].depends
                              = IF q < Len(pre) /\ op.inst \in {"barrier", "nop"}
                                   /\ pre[q + 1].inst \notin _insts_no_need_sync_barrier
                                THEN op.depends \o Residual(gpu, pre[q + 1])
                                ELSE op.depends
               /\ \A p \in 1..Len(final) :
                     final[p].inst = "nop" =>
                         /\ final[p].depends # <<>>
                         /\ p > 1 => final[p - 1].inst \notin {"barrier", "nop"}

\* threadblock 0 is barrier, put, put: the first put's dependency on the
\* signal of threadblock 1 is appended to the barrier, the second put gets
\* a marker of its own
C15_Witness ==
    /\ pc = "expanded"
    /\ LET pre == simplified.gpus[1].threadblocks[1].ops
           final == program.gpus[1].threadblocks[1].ops
       IN /\ pre[1].inst = "barrier" /\ pre[1].depends = <<12>>
          /\ pre[2].depends = <<11>> /\ pre[2].inst = "put"
          /\ Deref(simplified.gpus[1], 11).inst = "signal"
          /\ Len(pre[3].depends) = 1
          /\ Len(final) = 4
          /\ final[1].inst = "barrier" /\ final[1].depends = <<12, 11>>
          /\ final[3].inst = "nop" /\ final[3].depends = pre[3].depends

(***************************************************************************)
(* Properties of the emitted channel ids.                                  *)
(***************************************************************************)
\* the cids the document gives threadblock tb under key (none when the
\* threadblock has no entry for the key)
CidsOf(tb, key) ==
    LET entries == {c \in 1..Len(tb.channels) :
                       <<tb.channels[c].src, tb.channels[c].dst, tb.channels[c].ctype>> = key}
    IN UNION {Range(tb.channels[c].cids) : c \in entries}

\* C16 as stated: each key's list is sorted by (threadblock id, connection
\* target) and a channel's id is its position in it; the cids emitted for a
\* threadblock under the key are exactly the positions it owns, so the cids
\* of distinct threadblocks are disjoint and together cover 0..n-1 for the n
\* entries of the key.
C16_CidsPartitionPositions ==
    Emitted =>
        \A g \in Devices : \A i \in 1..Len(program.gpus[g].channels) :
            LET key == program.gpus[g].channels[i].key
                list == program.gpus[g].channels[i].value
                doc == out.gpus[g].threadblocks
            IN /\ \A a, b \in 1..Len(list) : a < b => ~TupleLess(list[b], list[a])
               /\ \A t \in 1..Len(doc) :
                     CidsOf(doc[t], key)
                        = {a - 1 : a \in {b \in 1..Len(list) : list[b].tb = doc[t].id}}
               /\ \A t, u \in 1..Len(doc) :
                     t # u => CidsOf(doc[t], key) \cap CidsOf(doc[u], key) = {}
               /\ UNION {CidsOf(doc[t], key) : t \in 1..Len(doc)} = 0..(Len(list) - 1)

(***************************************************************************)
(* Properties of the signal/wait decoupling.                               *)
(***************************************************************************)
\* the dependencies of an op list entry whose target is a signal op
OnSignal(gpu, op) == {dep \in Range(op.depends) : Deref(gpu, dep).inst = "signal"}

\* s without the elements of the set S, order kept
Without(s, S) == SelectSeq(s, LAMBDA x : x \notin S)

\* C17: after the first simplifier pass no wait op lists a dependency on a
\* signal op; the non-signal dependencies of a wait op and all dependencies
\* of every other op are kept in their original order, and the pass changes
\* nothing else of the program.
C17_WaitsDecoupledFromSignals ==
    [][pc = "allocated" =>
        /\ program' = [program EXCEPT !.gpus = program'.gpus]
        /\ \A g \in Devices :
              LET gpu == program.gpus[g]
                  gpu2 == program'.gpus[g]
              IN /\ gpu2 = [gpu EXCEPT !.threadblocks = gpu2.threadblocks]
                 /\ Len(gpu2.threadblocks) = Len(gpu.threadblocks)
                 /\ \A t \in 1..Len(gpu.threadblocks) :
                       LET before == gpu.threadblocks[t]
                           after == gpu2.threadblocks[t]
                       IN /\ after = [before EXCEPT !.ops = after.ops]
                          /\ Len(after.ops) = Len(before.ops)
                          /\ \A k \in 1..Len(before.ops) :
                                /\ after.ops[k]
                                      = [before.ops[k] EXCEPT !.depends = after.ops[k].depends]
                                /\ IF before.ops[k].inst = "wait"
                                   THEN /\ OnSignal(gpu2, after.ops[k]) = {}
                                        /\ after.ops[k].depends
                                              = Without(before.ops[k].depends,
                                                        OnSignal(gpu, before.ops[k]))
                                   ELSE after.ops[k].depends = before.ops[k].depends]_vars

\* op 3 of threadblock 0 is a wait that listed the signal op 1 and the put
\* op 12 and keeps only op 12; op 2, a put, keeps its dependency on the
\* signal op 11
C17_Witness ==
    /\ pc = "decoupled"
    /\ LET before == TbById(input.gpus[1], 0).ops
           after == TbById(program.gpus[1], 0).ops
       IN /\ before[3].inst = "wait" /\ before[3].depends = <<1, 12>>
          /\ before[1].inst = "signal"
          /\ after[3].depends = <<12>>
          /\ before[2].inst = "put" /\ before[2].depends = <<11>>
          /\ Deref(input.gpus[1], 11).inst = "signal"
          /\ after[2].depends = <<11>>

====
